---- MODULE Spec2Model ----
(***************************************************************************)
(* Model of fmfug.py: the username pattern interpreter                     *)
(* (UsernameGenerator) and the chunked, pooled generation pipeline         *)
(* (run_processing, batch_write, main's handling of its outcome).          *)
(*                                                                         *)
(* A Python str is a sequence of one-character strings; Python's None is   *)
(* the one-element sequence None, which no str equals because its element  *)
(* is not a single character.                                              *)
(***************************************************************************)
EXTENDS Integers, Sequences, FiniteSets, Bags, TLC

(***************************************************************************)
(* Bounds of the model.                                                    *)
(***************************************************************************)
MaxTokens == 3        \* tokens in a raw name drawn for the interpreter
MaxN == 9             \* largest number written in a drawn pattern
MaxWorkers == 2       \* largest worker count
MaxItems == 3         \* length of the short sources
MaxExtra == 1         \* items a long source holds beyond one full chunk
MaxBufferItems == 4   \* length of the sources that fill the write buffer

(***************************************************************************)
(* Characters and the str methods the program uses.                        *)
(***************************************************************************)
None == <<"None">>

LowerAlpha == <<"a","b","c","d","e","f","g","h","i","j","k","l","m",
                "n","o","p","q","r","s","t","u","v","w","x","y","z">>
UpperAlpha == <<"A","B","C","D","E","F","G","H","I","J","K","L","M",
                "N","O","P","Q","R","S","T","U","V","W","X","Y","Z">>
DigitChars == <<"0","1","2","3","4","5","6","7","8","9">>
SpaceChars == {" ", "\t", "\n"}
SeparatorChars == {".", "_", "-"}

Range(f) == {f[i] : i \in DOMAIN f}
Min(S) == CHOOSE x \in S : \A y \in S : x <= y
IndexOf(c, seq) == CHOOSE i \in DOMAIN seq : seq[i] = c

ch_islower(c) == c \in Range(LowerAlpha)
ch_isupper(c) == c \in Range(UpperAlpha)
ch_isalpha(c) == ch_islower(c) \/ ch_isupper(c)
ch_isdigit(c) == c \in Range(DigitChars)
ch_isspace(c) == c \in SpaceChars
ch_lower(c) == IF ch_isupper(c) THEN LowerAlpha[IndexOf(c, UpperAlpha)] ELSE c
ch_upper(c) == IF ch_islower(c) THEN UpperAlpha[IndexOf(c, LowerAlpha)] ELSE c

str_lower(s) == [i \in DOMAIN s |-> ch_lower(s[i])]
str_upper(s) == [i \in DOMAIN s |-> ch_upper(s[i])]
\* str.isupper(): no lower-case letter and at least one upper-case letter
str_isupper(s) == /\ \A i \in DOMAIN s : ~ch_islower(s[i])
                  /\ \E i \in DOMAIN s : ch_isupper(s[i])
\* str.isspace(): non-empty and made of whitespace only
str_isspace(s) == s # <<>> /\ \A i \in DOMAIN s : ch_isspace(s[i])
\* str.capitalize(): first character upper-cased, the rest lower-cased
str_capitalize(s) ==
  [i \in DOMAIN s |-> IF i = 1 THEN ch_upper(s[i]) ELSE ch_lower(s[i])]
\* s[:n]
str_prefix(s, n) == SubSeq(s, 1, IF n < Len(s) THEN n ELSE Len(s))
\* s[i:], i a 1-based position
str_from(s, i) == SubSeq(s, i, Len(s))
\* str.startswith(p) at position i
starts_at(s, i, p) ==
  /\ i + Len(p) - 1 <= Len(s)
  /\ \A j \in DOMAIN p : s[i + j - 1] = p[j]

\* str.strip()
str_strip(s) ==
  LET keep == {i \in DOMAIN s : ~ch_isspace(s[i])}
  IN IF keep = {} THEN <<>>
     ELSE SubSeq(s, Min(keep), CHOOSE x \in keep : \A y \in keep : y <= x)

\* str.split() without argument: the maximal runs of non-whitespace
RECURSIVE str_split(_)
str_split(s) ==
  IF s = <<>> THEN <<>>
  ELSE IF ch_isspace(s[1]) THEN str_split(Tail(s))
  ELSE LET sp == {i \in DOMAIN s : ch_isspace(s[i])}
           n == IF sp = {} THEN Len(s) ELSE Min(sp) - 1
       IN <<SubSeq(s, 1, n)>> \o str_split(str_from(s, n + 1))

\* "".join(parts)
RECURSIVE str_join(_)
str_join(parts) ==
  IF parts = <<>> THEN <<>> ELSE Head(parts) \o str_join(Tail(parts))

\* int(digits)
RECURSIVE py_int(_)
py_int(d) ==
  IF d = <<>> THEN 0
  ELSE 10 * py_int(SubSeq(d, 1, Len(d) - 1)) + (IndexOf(d[Len(d)], DigitChars) - 1)

\* f"{i}" for a non-negative integer i
RECURSIVE py_str(_)
py_str(i) ==
  IF i < 10 THEN <<DigitChars[i + 1]>>
  ELSE py_str(i \div 10) \o <<DigitChars[(i % 10) + 1]>>

\* number of leading digit characters of s from position i
digit_run(s, i) ==
  LET stop == {j \in i..Len(s) : ~ch_isdigit(s[j])}
  IN IF stop = {} THEN Len(s) - i + 1 ELSE Min(stop) - i

(***************************************************************************)
(* UsernameGenerator                                                       *)
(***************************************************************************)
kw_first == <<"f","i","r","s","t">>
kw_middle == <<"m","i","d","d","l","e">>
kw_last == <<"l","a","s","t">>
Keywords == <<kw_first, kw_middle, kw_last>>

\* the alternation (first|middle|last) tried at position i: the keyword
\* matched there, or None
keyword_at(s, i) ==
  IF starts_at(s, i, kw_first) THEN kw_first
  ELSE IF starts_at(s, i, kw_middle) THEN kw_middle
  ELSE IF starts_at(s, i, kw_last) THEN kw_last
  ELSE None

\* name_parts.get(part, '')
name_get(name_parts, part) ==
  IF part = kw_first THEN name_parts.first
  ELSE IF part = kw_middle THEN name_parts.middle
  ELSE IF part = kw_last THEN name_parts.last
  ELSE <<>>

\* re_bracket tried at position i: (first|middle|last)\[(\d+)\]
\* kw is the keyword at i, j the position after it, d the digits after "["
bracket_groups(s, i, kw, j, d) ==
  IF /\ kw # None
     /\ j <= Len(s) /\ s[j] = "["
     /\ d >= 1
     /\ j + 1 + d <= Len(s) /\ s[j + 1 + d] = "]"
  THEN [matched |-> TRUE, part |-> kw,
        length |-> SubSeq(s, j + 1, j + d), end |-> j + 1 + d]
  ELSE [matched |-> FALSE, part |-> <<>>, length |-> <<>>, end |-> i]

bracket_after(s, i, kw, j) == bracket_groups(s, i, kw, j, digit_run(s, j + 1))
bracket_from(s, i, kw) == bracket_after(s, i, kw, i + Len(kw))
re_bracket_at(s, i) == bracket_from(s, i, keyword_at(s, i))

\* re_numeric.match(format_str): (first|middle|last)(\[(\d+)\])?(\d+)$
\* anchored at the start; $ is the end of the string or the position before
\* a final newline.  (\d+)$ tried at position j, d the digits found there:
numeric_tail(s, j, d) ==
  IF d >= 1 /\ ( \/ j + d = Len(s) + 1
                 \/ (j + d = Len(s) /\ s[Len(s)] = "\n") )
  THEN [matched |-> TRUE, num |-> SubSeq(s, j, j + d - 1)]
  ELSE [matched |-> FALSE, num |-> <<>>]

re_numeric_tail(s, j) == numeric_tail(s, j, digit_run(s, j))

\* (\[(\d+)\])? at position j, b the digits after "[": the position after
\* the bracket, or j when the optional group matches nothing
after_bracket(s, j, b) ==
  IF /\ j <= Len(s) /\ s[j] = "["
     /\ b >= 1
     /\ j + 1 + b <= Len(s) /\ s[j + 1 + b] = "]"
     /\ re_numeric_tail(s, j + 2 + b).matched
  THEN j + 2 + b
  ELSE j

numeric_groups(kw, tail) ==
  IF tail.matched
  THEN [matched |-> TRUE, base |-> kw, num |-> tail.num]
  ELSE [matched |-> FALSE, base |-> <<>>, num |-> <<>>]

numeric_from(s, kw, j) ==
  IF kw = None THEN [matched |-> FALSE, base |-> <<>>, num |-> <<>>]
  ELSE numeric_groups(kw,
         re_numeric_tail(s, after_bracket(s, j, digit_run(s, j + 1))))

numeric_keyword(s, kw) == numeric_from(s, kw, 1 + Len(kw))
re_numeric_match(s) == numeric_keyword(s, keyword_at(s, 1))

parse_name(name) ==
  LET parts == str_split(str_strip(name))
  IN [first |-> IF Len(parts) > 0 THEN parts[1] ELSE <<>>,
      middle |-> IF Len(parts) > 2 THEN parts[2] ELSE <<>>,
      last |-> IF Len(parts) > 1 THEN parts[Len(parts)] ELSE <<>>]

\* replace_with_length(match)
replace_with_length(name_parts, part, length) ==
  LET value == name_get(name_parts, part)
  IN IF value # <<>> THEN str_prefix(value, py_int(length)) ELSE <<>>

\* self.re_bracket.sub(replace_with_length, result)
RECURSIVE re_bracket_sub(_, _)
re_bracket_sub(s, name_parts) ==
  IF s = <<>> THEN <<>>
  ELSE LET m == re_bracket_at(s, 1)
       IN IF m.matched
          THEN replace_with_length(name_parts, m.part, m.length)
                 \o re_bracket_sub(str_from(s, m.end + 1), name_parts)
          ELSE <<s[1]>> \o re_bracket_sub(Tail(s), name_parts)

\* self.re_keywords.split(result): the text between the matches, with
\* each matched keyword in between
RECURSIVE re_keywords_split(_)
re_keywords_split(s) ==
  LET hits == {i \in DOMAIN s : keyword_at(s, i) # None}
  IN IF hits = {} THEN <<s>>
     ELSE LET i == Min(hits)
              kw == keyword_at(s, i)
          IN <<SubSeq(s, 1, i - 1), kw>>
               \o re_keywords_split(str_from(s, i + Len(kw)))

\* self.re_separators.split(result)
RECURSIVE re_separators_split(_)
re_separators_split(s) ==
  LET hits == {i \in DOMAIN s : s[i] \in SeparatorChars}
  IN IF hits = {} THEN <<s>>
     ELSE LET i == Min(hits)
          IN <<SubSeq(s, 1, i - 1), <<s[i]>>>>
               \o re_separators_split(str_from(s, i + 1))

\* the keyword loop over parts_arr
substitute_parts(parts_arr, name_parts) ==
  [k \in DOMAIN parts_arr |->
     IF parts_arr[k] \in Range(Keywords)
     THEN name_get(name_parts, parts_arr[k])
     ELSE parts_arr[k]]

\* the per-segment capitalisation
capitalize_parts(split_parts) ==
  [k \in DOMAIN split_parts |->
     IF split_parts[k] # <<>> /\ ch_isalpha(split_parts[k][1])
     THEN str_capitalize(split_parts[k])
     ELSE split_parts[k]]

\* the result, or None for an empty or blank one
result_or_none(result) ==
  IF result # <<>> /\ ~str_isspace(result) THEN result ELSE None

\* the case handling of the substituted text
case_handling(self, format_str, result) ==
  IF result # <<>> /\ ~self.case_sensitive
  THEN str_lower(result)
  ELSE IF result # <<>>
          /\ format_str # <<>> /\ ch_isupper(format_str[1])
          /\ Len(format_str) > 1
  THEN IF str_isupper(format_str)
       THEN str_upper(result)
       ELSE str_join(capitalize_parts(re_separators_split(result)))
  ELSE result

\* bracket substitution, keyword substitution, case handling, blank check
process_format(self, format_str, name_parts) ==
  result_or_none(
    case_handling(self, format_str,
      str_join(substitute_parts(
        re_keywords_split(re_bracket_sub(format_str, name_parts)),
        name_parts))))

\* truthiness of an Optional[str]
truthy(x) == x # None /\ x # <<>>

\* numeric_variants with range(int(num)) in place of range(int(num) + 1)
numeric_variants_short(base_username, num) ==
  IF truthy(base_username)
  THEN [i \in 1..num |-> base_username \o py_str(i - 1)]
  ELSE <<>>

\* the loop over range(int(num) + 1), num the value of int(num)
numeric_variants(base_username, num) ==
  IF truthy(base_username)
  THEN [i \in 1..(num + 1) |-> base_username \o py_str(i - 1)]
  ELSE <<>>

single_variant(username) == IF truthy(username) THEN <<username>> ELSE <<>>

apply_match(self, format_str, name_parts, match) ==
  IF match.matched
  THEN numeric_variants(process_format(self, match.base, name_parts),
                        py_int(match.num))
  ELSE single_variant(process_format(self, format_str, name_parts))

apply_format(self, format_str, name_parts) ==
  apply_match(self, format_str, name_parts, re_numeric_match(format_str))

\* a call's outcome: the list returned, or the exception raised
Returned(v) == [exc |-> "", value |-> v]
Raised(e) == [exc |-> e, value |-> <<>>]

RECURSIVE formats_loop(_, _, _)
formats_loop(self, formats, name_parts) ==
  IF formats = <<>> THEN <<>>
  ELSE apply_format(self, Head(formats), name_parts)
         \o formats_loop(self, Tail(formats), name_parts)

generate_parsed(self, name_parts) ==
  IF name_parts.first = <<>> THEN Returned(<<>>)
  ELSE Returned(formats_loop(self, self.formats, name_parts))

generate_stripped(self, name) ==
  IF name = <<>> THEN Returned(<<>>)
  ELSE generate_parsed(self, parse_name(name))

\* None has no strip()
generate_from_name(self, name) ==
  IF name = None THEN Raised("AttributeError")
  ELSE generate_stripped(self, str_strip(name))

\* args is the triple (name, fn, ln)
process_single_task(self, args) ==
  generate_from_name(self,
    IF /\ args.fn # None /\ args.fn # <<>>
       /\ args.ln # None /\ args.ln # <<>>
    THEN args.fn \o <<" ">> \o args.ln
    ELSE args.name)

(***************************************************************************)
(* State.  call, done and ret hold one direct call of the interpreter; the *)
(* other variables are run_processing's and main's.                        *)
(***************************************************************************)
VARIABLES
  call,             \* the arguments of a direct call of the interpreter
  done,             \* the method that was called ("" before the call)
  ret,              \* what that call returned or raised
  generator,        \* the UsernameGenerator handed to run_processing
  workers,          \* run_processing's workers argument
  output_file,      \* TRUE: a file handle, FALSE: None (standard output)
  source,           \* the items name_iterator yields, in order
  pulled,           \* how many of them the iterator has yielded
  chunk,            \* the slice loaded last
  queue,            \* the pool's work queue: units submitted, not yet started
  running,          \* bag of the units a worker thread is executing
  finished,         \* bag of the completed units as_completed has not yielded
  output_buffer,
  total_generated,
  pbar,             \* the progress bar's count
  writes,           \* the write calls made on the file, each a list of lines
  printed,          \* the lines printed to standard output
  errors,           \* the error lines written to stderr, as (item, message)
  collected,        \* the items whose units the controller handled, in order
  pc,               \* where the controlling thread is
  dispatched,       \* the number of chunks submitted to the pool
  interrupt_at,     \* dispatched at the time of the interrupt, -1 if none
  log               \* main's closing message

interp_vars == <<call, done, ret>>
pipe_vars == <<generator, workers, output_file, source, pulled, chunk, queue,
               running, finished, output_buffer, total_generated, pbar,
               writes, printed, errors, collected, pc, dispatched,
               interrupt_at, log>>
vars == <<call, done, ret, generator, workers, output_file, source, pulled,
          chunk, queue, running, finished, output_buffer, total_generated,
          pbar, writes, printed, errors, collected, pc, dispatched,
          interrupt_at, log>>

DEFAULT_FORMATS ==
  << <<"f","i","r","s","t">>,
     <<"l","a","s","t">>,
     <<"f","i","r","s","t","l","a","s","t">>,
     <<"l","a","s","t","f","i","r","s","t">>,
     <<"f","i","r","s","t",".","l","a","s","t">>,
     <<"l","a","s","t",".","f","i","r","s","t">>,
     <<"f","i","r","s","t","-","l","a","s","t">>,
     <<"l","a","s","t","-","f","i","r","s","t">>,
     <<"f","i","r","s","t","_","l","a","s","t">>,
     <<"l","a","s","t","_","f","i","r","s","t">>,
     <<"f","i","r","s","t","[","1","]",".","l","a","s","t">>,
     <<"l","a","s","t","[","1","]",".","f","i","r","s","t">>,
     <<"f","i","r","s","t","l","a","s","t","[","1","]">>,
     <<"f","i","r","s","t","[","1","]","l","a","s","t">>,
     <<"l","a","s","t","[","1","]","f","i","r","s","t">>,
     <<"l","a","s","t","f","i","r","s","t","[","1","]">>,
     <<"f","i","r","s","t","[","1","]","l","a","s","t","[","1","]">>,
     <<"l","a","s","t","[","1","]","f","i","r","s","t","[","1","]">> >>

(***************************************************************************)
(* Work items: a raw name, or a (first_name, last_name) tuple.             *)
(***************************************************************************)
StrItem(name) == [is_tuple |-> FALSE, v0 |-> name, v1 |-> None]
PairItem(fn, ln) == [is_tuple |-> TRUE, v0 |-> fn, v1 |-> ln]

prepare_args(item) ==
  IF item.is_tuple
  THEN [name |-> None, fn |-> item.v0, ln |-> item.v1]
  ELSE [name |-> item.v0, fn |-> None, ln |-> None]

(***************************************************************************)
(* Inputs drawn for the direct calls of the interpreter.                   *)
(***************************************************************************)
tok_Ada == <<"A","d","a">>
tok_Lovelace == <<"L","o","v","e","l","a","c","e">>
tok_alastair == <<"a","l","a","s","t","a","i","r">>
tok_smith == <<"s","m","i","t","h">>
NameTokens == {tok_Ada, tok_Lovelace, tok_alastair}

\* the tokens joined by single blanks
RECURSIVE join_tokens(_)
join_tokens(ts) ==
  IF ts = <<>> THEN <<>>
  ELSE IF Len(ts) = 1 THEN ts[1]
  ELSE ts[1] \o <<" ">> \o join_tokens(Tail(ts))

TokenLists == UNION {[1..n -> NameTokens] : n \in 0..MaxTokens}
RawNames ==
  {join_tokens(ts) : ts \in TokenLists}
    \cup { <<" ">>, <<" ", "\t">>,
           <<" ">> \o tok_Ada \o <<" ", "\t">> \o tok_smith \o <<"\n">> }

bracket_pattern(k, n) == k \o <<"[">> \o py_str(n) \o <<"]">>
BracketSamples == {0, 2, MaxN}
FixedPatterns ==
  Range(DEFAULT_FORMATS)
    \cup { <<"F","i","r","s","t",".","L","a","s","t">>,
           <<"F","I","R","S","T">>,
           <<"X","f","i","r","s","t",".","l","a","s","t">>,
           <<"f","i","r","s","t","[","2","]","l","a","s","t">>,
           <<"L","a","s","t","[","1","]","F","i","r","s","t","5">> }
Patterns ==
  FixedPatterns
    \cup {bracket_pattern(k, n) : k \in Range(Keywords), n \in 0..MaxN}
    \cup {k \o py_str(n) : k \in Range(Keywords), n \in 0..MaxN}
    \cup {bracket_pattern(k, m) \o py_str(n) :
            k \in Range(Keywords), m \in BracketSamples, n \in 0..MaxN}

NameComponents == {<<>>, <<" ">>, tok_Ada, tok_smith}
TaskItems ==
  {StrItem(n) : n \in RawNames}
    \cup {PairItem(fn, ln) : fn \in NameComponents, ln \in NameComponents}

ApplyCalls ==
  [method : {"apply_format"}, case_sensitive : BOOLEAN,
   format_str : Patterns, name : RawNames, item : {StrItem(<<>>)}]
TaskCalls ==
  [method : {"process_single_task"}, case_sensitive : BOOLEAN,
   format_str : {<<>>}, name : {<<>>}, item : TaskItems]

\* the variables of run_processing before any run
PipeIdle ==
  /\ generator = [case_sensitive |-> FALSE, formats |-> DEFAULT_FORMATS]
  /\ workers = 1
  /\ output_file = FALSE
  /\ source = <<>>
  /\ pulled = 0
  /\ chunk = <<>>
  /\ queue = <<>>
  /\ running = EmptyBag
  /\ finished = EmptyBag
  /\ output_buffer = <<>>
  /\ total_generated = 0
  /\ pbar = 0
  /\ writes = <<>>
  /\ printed = <<>>
  /\ errors = <<>>
  /\ collected = <<>>
  /\ pc = "idle"
  /\ dispatched = 0
  /\ interrupt_at = -1
  /\ log = [msg |-> "", has_total |-> FALSE, total |-> 0]

InitInterp ==
  /\ call \in ApplyCalls \cup TaskCalls
  /\ done = ""
  /\ ret = Returned(<<>>)
  /\ PipeIdle

\* generator.apply_format(format_str, generator.parse_name(name)), the
\* iterator run to its end
ApplyFormat ==
  /\ done = ""
  /\ call.method = "apply_format"
  /\ ret' = Returned(apply_format(
              [case_sensitive |-> call.case_sensitive,
               formats |-> DEFAULT_FORMATS],
              call.format_str, parse_name(call.name)))
  /\ done' = "apply_format"
  /\ UNCHANGED <<call, pipe_vars>>

\* generator.process_single_task(prepare_args(item))
ProcessSingleTask ==
  /\ done = ""
  /\ call.method = "process_single_task"
  /\ ret' = process_single_task(
              [case_sensitive |-> call.case_sensitive,
               formats |-> DEFAULT_FORMATS],
              prepare_args(call.item))
  /\ done' = "process_single_task"
  /\ UNCHANGED <<call, pipe_vars>>

NextInterp == ApplyFormat \/ ProcessSingleTask
SpecInterp == InitInterp /\ [][NextInterp]_vars

(***************************************************************************)
(* run_processing and main                                                 *)
(*                                                                         *)
(* pc is the controlling thread's position:                                *)
(*   "load"      about to slice the next chunk off the iterator            *)
(*   "submit"    about to submit the chunk's items to the pool             *)
(*   "collect"   inside the as_completed loop                              *)
(*   "flush"     the source is exhausted, about to write the rest          *)
(*   "returned"  run_processing returned total_generated to main           *)
(*   "raised"    a KeyboardInterrupt left run_processing and reached main  *)
(*   "exit"      main logged its closing message                           *)
(* A unit's result is a function of its item alone, so the model computes  *)
(* it where the controller reads it (future.result()).                     *)
(***************************************************************************)
\* The work items the explored sources are made of.  source, chunk, queue and
\* the bags hold an item as its position in this table.
item_name == StrItem(tok_Ada \o <<" ">> \o tok_Lovelace)
item_blank == StrItem(<<" ">>)
item_pair == PairItem(tok_alastair, tok_smith)
item_bad_pair == PairItem(<<>>, tok_smith)
Items == <<item_name, item_pair, item_bad_pair, item_blank>>
id_name == IndexOf(item_name, Items)
id_pair == IndexOf(item_pair, Items)
id_bad_pair == IndexOf(item_bad_pair, Items)
id_blank == IndexOf(item_blank, Items)
ItemPool == {id_name, id_pair, id_bad_pair}

\* The format lists of the explored runs: the default one, one giving 1000
\* usernames a name, one giving 501 usernames a name, one giving one.
fmt_first999 == kw_first \o <<"9","9","9">>
fmt_last499 == kw_last \o <<"4","9","9">>
BufferFormatLists == {<<fmt_first999>>, <<kw_first, fmt_last499>>}
FormatLists == {DEFAULT_FORMATS, <<kw_first>>} \cup BufferFormatLists

\* What a worker's call generator.process_single_task(prepare_args(item))
\* gives.  It depends on the item and the generator only, so it is computed
\* once for each item and format list of the explored runs.
UnitResults ==
  [formats \in FormatLists |->
     [id \in DOMAIN Items |->
        process_single_task([case_sensitive |-> FALSE, formats |-> formats],
                            prepare_args(Items[id]))]]
unit_result(gen, id) == UnitResults[gen.formats][id]

WRITE_BUFFER_SIZE == 1000
\* CHUNK_SIZE with a slice one item too long
CHUNK_SIZE_plus_one == workers * 200 + 1
CHUNK_SIZE == workers * 200

InFlight == Len(queue) + BagCardinality(running) + BagCardinality(finished)

\* the file's write calls after batch_write(file_handle, buffer)
batch_write(file_handle, buffer) ==
  IF buffer = <<>> \/ ~file_handle THEN writes ELSE Append(writes, buffer)

\* itertools.islice(iterator, CHUNK_SIZE), and the break on an empty chunk
LoadChunk ==
  /\ pc = "load"
  /\ LET n == IF Len(source) - pulled < CHUNK_SIZE
              THEN Len(source) - pulled ELSE CHUNK_SIZE
     IN /\ chunk' = SubSeq(source, pulled + 1, pulled + n)
        /\ pulled' = pulled + n
        /\ pc' = IF n = 0 THEN "flush" ELSE "submit"
  /\ UNCHANGED <<interp_vars, generator, workers, output_file, source, queue,
                 running, finished, output_buffer, total_generated, pbar,
                 writes, printed, errors, collected, dispatched,
                 interrupt_at, log>>

\* executor.submit for every item of the chunk, in order; the chunk is not
\* read again
SubmitChunk ==
  /\ pc = "submit"
  /\ queue' = queue \o chunk
  /\ chunk' = <<>>
  /\ dispatched' = dispatched + 1
  /\ pc' = "collect"
  /\ UNCHANGED <<interp_vars, generator, workers, output_file, source, pulled,
                 running, finished, output_buffer, total_generated,
                 pbar, writes, printed, errors, collected, interrupt_at, log>>

\* an idle worker thread takes the oldest queued unit
WorkerStart ==
  /\ queue # <<>>
  /\ BagCardinality(running) < workers
  /\ running' = running (+) SetToBag({Head(queue)})
  /\ queue' = Tail(queue)
  /\ UNCHANGED <<interp_vars, generator, workers, output_file, source, pulled,
                 chunk, finished, output_buffer, total_generated, pbar,
                 writes, printed, errors, collected, pc, dispatched,
                 interrupt_at, log>>

\* a worker thread completes its unit, with a result or an exception
WorkerFinish ==
  \E item \in BagToSet(running) :
    /\ running' = running (-) SetToBag({item})
    /\ finished' = finished (+) SetToBag({item})
    /\ UNCHANGED <<interp_vars, generator, workers, output_file, source,
                   pulled, chunk, queue, output_buffer, total_generated, pbar,
                   writes, printed, errors, collected, pc, dispatched,
                   interrupt_at, log>>

\* accept_usernames with > in place of >= in the test of the buffer's length
accept_usernames_gt(usernames) ==
  /\ total_generated' = total_generated + Len(usernames)
  /\ IF output_file
     THEN /\ IF Len(output_buffer \o usernames) > WRITE_BUFFER_SIZE
             THEN /\ writes' = batch_write(output_file,
                                           output_buffer \o usernames)
                  /\ output_buffer' = <<>>
             ELSE /\ output_buffer' = output_buffer \o usernames
                  /\ writes' = writes
          /\ printed' = printed
     ELSE /\ printed' = printed \o usernames
          /\ UNCHANGED <<output_buffer, writes>>
  /\ errors' = errors

\* accept_usernames putting the usernames one by one at the front
accept_usernames_front(usernames) ==
  LET reversed == [i \in DOMAIN usernames |->
                     usernames[Len(usernames) + 1 - i]]
  IN /\ total_generated' = total_generated + Len(usernames)
     /\ IF output_file
        THEN /\ IF Len(reversed \o output_buffer) >= WRITE_BUFFER_SIZE
                THEN /\ writes' = batch_write(output_file,
                                              reversed \o output_buffer)
                     /\ output_buffer' = <<>>
                ELSE /\ output_buffer' = reversed \o output_buffer
                     /\ writes' = writes
             /\ printed' = printed
        ELSE /\ printed' = reversed \o printed
             /\ UNCHANGED <<output_buffer, writes>>
     /\ errors' = errors

\* the try body of the as_completed loop, for a unit that returned usernames
accept_usernames(usernames) ==
  /\ total_generated' = total_generated + Len(usernames)
  /\ IF output_file
     THEN /\ IF Len(output_buffer \o usernames) >= WRITE_BUFFER_SIZE
             THEN /\ writes' = batch_write(output_file,
                                           output_buffer \o usernames)
                  /\ output_buffer' = <<>>
             ELSE /\ output_buffer' = output_buffer \o usernames
                  /\ writes' = writes
          /\ printed' = printed
     ELSE /\ printed' = printed \o usernames
          /\ UNCHANGED <<output_buffer, writes>>
  /\ errors' = errors

\* report_error swallowing the exception
report_error_silent(item, e) ==
  /\ errors' = errors
  /\ UNCHANGED <<total_generated, output_buffer, writes, printed>>

\* the except branch, for a unit whose call raised
report_error(item, e) ==
  /\ errors' = Append(errors, [item |-> item, message |-> e])
  /\ UNCHANGED <<total_generated, output_buffer, writes, printed>>

\* the try statement of the loop body, for the result of item's future
handle_result(item, result) ==
  IF result.exc = ""
  THEN accept_usernames(result.value)
  ELSE report_error(item, result.exc)

\* one iteration of the as_completed loop; the loop ends, and the next chunk
\* is loaded, once every future of the chunk has been yielded
Collect(item) ==
  /\ pc = "collect"
  /\ BagIn(item, finished)
  /\ handle_result(item, unit_result(generator, item))
  /\ pbar' = pbar + 1
  /\ finished' = finished (-) SetToBag({item})
  /\ collected' = Append(collected, item)
  /\ pc' = IF queue = <<>> /\ running = EmptyBag /\ finished' = EmptyBag
           THEN "load" ELSE "collect"
  /\ UNCHANGED <<interp_vars, generator, workers, output_file, source, pulled,
                 chunk, queue, running, dispatched, interrupt_at, log>>

CollectAny == \E item \in BagToSet(finished) : Collect(item)

\* Flush without the write of the rest
Flush_no_write ==
  /\ pc = "flush"
  /\ writes' = writes
  /\ pc' = "returned"
  /\ UNCHANGED <<interp_vars, generator, workers, output_file, source, pulled,
                 chunk, queue, running, finished, output_buffer,
                 total_generated, pbar, printed, errors, collected,
                 dispatched, interrupt_at, log>>

\* the write of the rest of the buffer, the exit of the executor's context
\* manager (nothing is pending) and the return
Flush ==
  /\ pc = "flush"
  /\ writes' = IF output_file /\ output_buffer # <<>>
               THEN batch_write(output_file, output_buffer)
               ELSE writes
  /\ pc' = "returned"
  /\ UNCHANGED <<interp_vars, generator, workers, output_file, source, pulled,
                 chunk, queue, running, finished, output_buffer,
                 total_generated, pbar, printed, errors, collected,
                 dispatched, interrupt_at, log>>

\* the units of the queue, as a bag
BagOfSeq(seq) ==
  [x \in Range(seq) |-> Cardinality({i \in DOMAIN seq : seq[i] = x})]

\* A KeyboardInterrupt is raised in the controlling thread while
\* run_processing runs.  Nothing in run_processing catches it: it leaves the
\* two with blocks, and the executor's context manager returns only once
\* every submitted unit has run.  No result is collected any more.
Interrupt ==
  /\ pc \in {"load", "submit", "collect", "flush"}
  /\ pc' = "raised"
  /\ interrupt_at' = dispatched
  /\ queue' = <<>>
  /\ running' = EmptyBag
  /\ finished' = finished (+) running (+) BagOfSeq(queue)
  /\ UNCHANGED <<interp_vars, generator, workers, output_file, source, pulled,
                 chunk, output_buffer, total_generated, pbar, writes, printed,
                 errors, collected, dispatched, log>>

\* main after run_processing returned
MainDone ==
  /\ pc = "returned"
  /\ log' = [msg |-> "Done! Generated", has_total |-> TRUE,
             total |-> total_generated]
  /\ pc' = "exit"
  /\ UNCHANGED <<interp_vars, generator, workers, output_file, source, pulled,
                 chunk, queue, running, finished, output_buffer,
                 total_generated, pbar, writes, printed, errors, collected,
                 dispatched, interrupt_at>>

\* main's except KeyboardInterrupt
MainInterrupted ==
  /\ pc = "raised"
  /\ log' = [msg |-> "Interrupted.", has_total |-> FALSE, total |-> 0]
  /\ pc' = "exit"
  /\ UNCHANGED <<interp_vars, generator, workers, output_file, source, pulled,
                 chunk, queue, running, finished, output_buffer,
                 total_generated, pbar, writes, printed, errors, collected,
                 dispatched, interrupt_at>>

(***************************************************************************)
(* The runs explored.  Short runs: every source of at most MaxItems items  *)
(* of the pool, with the default formats, to a file and to standard        *)
(* output.  Buffer runs: names whose usernames fill the write buffer, to a *)
(* file.  Long runs: a source that holds more than one full chunk.         *)
(***************************************************************************)
ShortSources == UNION {[1..n -> ItemPool] : n \in 0..MaxItems}
\* names, with a failing pair in second place
BufferSource(n) == [i \in 1..n |-> IF i = 2 THEN id_bad_pair ELSE id_name]
\* a full chunk of blank lines, then names
LongSource(w, extra) ==
  [i \in 1..(w * 200 + extra) |-> IF i <= w * 200 THEN id_blank ELSE id_name]

ShortRun ==
  /\ workers \in 1..MaxWorkers
  /\ source \in ShortSources
  /\ generator = [case_sensitive |-> FALSE, formats |-> DEFAULT_FORMATS]
  /\ output_file \in BOOLEAN

BufferRun ==
  /\ workers \in 1..MaxWorkers
  /\ \E n \in 1..MaxBufferItems : source = BufferSource(n)
  /\ \E formats \in BufferFormatLists :
       generator = [case_sensitive |-> FALSE, formats |-> formats]
  /\ output_file = TRUE

LongRun ==
  /\ workers \in 1..MaxWorkers
  /\ source = LongSource(workers, MaxExtra)
  /\ generator = [case_sensitive |-> FALSE, formats |-> <<kw_first>>]
  /\ output_file = TRUE

Init ==
  /\ call = [method |-> "", case_sensitive |-> FALSE, format_str |-> <<>>,
             name |-> <<>>, item |-> StrItem(<<>>)]
  /\ done = ""
  /\ ret = Returned(<<>>)
  /\ (ShortRun \/ BufferRun \/ LongRun)
  /\ pulled = 0
  /\ chunk = <<>>
  /\ queue = <<>>
  /\ running = EmptyBag
  /\ finished = EmptyBag
  /\ output_buffer = <<>>
  /\ total_generated = 0
  /\ pbar = 0
  /\ writes = <<>>
  /\ printed = <<>>
  /\ errors = <<>>
  /\ collected = <<>>
  /\ pc = "load"
  /\ dispatched = 0
  /\ interrupt_at = -1
  /\ log = [msg |-> "", has_total |-> FALSE, total |-> 0]

Next ==
  \/ LoadChunk
  \/ SubmitChunk
  \/ WorkerStart
  \/ WorkerFinish
  \/ CollectAny
  \/ Flush
  \/ Interrupt
  \/ MainDone
  \/ MainInterrupted

Spec == Init /\ [][Next]_vars

(***************************************************************************)
(* Properties of the interpreter, checked under SpecInterp.                *)
(***************************************************************************)
name_Ada_Lovelace == tok_Ada \o <<" ">> \o tok_Lovelace
pattern_First_Last == <<"F","i","r","s","t",".","L","a","s","t">>

\* the work item's first-name component is empty: a blank raw string, or a
\* tuple one of whose components is empty
EmptyFirstName(item) ==
  IF item.is_tuple THEN item.v0 = <<>> \/ item.v1 = <<>>
  ELSE str_strip(item.v0) = <<>>

\* C4: for every work item whose first-name component is empty (a blank or
\* whitespace-only raw string, or a tuple with an empty component) the
\* generation task returns the empty list and raises nothing.
C4_EmptyFirstNameYieldsNothing ==
  (done = "process_single_task" /\ EmptyFirstName(call.item))
    => ret = Returned(<<>>)

\* C5: with case sensitivity on, First.Last on a two-token name yields
\* exactly one string, the first token capitalised, a dot, the last token
\* capitalised.
C5_FirstLastCapitalised ==
  (/\ done = "apply_format"
   /\ call.case_sensitive
   /\ call.format_str = pattern_First_Last
   /\ Len(str_split(call.name)) = 2)
    => ret = Returned(<< str_capitalize(str_split(call.name)[1]) \o <<".">>
                           \o str_capitalize(str_split(call.name)[2]) >>)

\* C6: with case sensitivity on, k[n] (n >= 1) on a name whose field k is
\* not empty yields exactly one string, the first min(n, length) characters
\* of that field, whatever characters the name contains.
C6_BracketTruncates ==
  (done = "apply_format" /\ call.case_sensitive)
    => \A k \in Range(Keywords) : \A n \in 1..MaxN :
         LET value == name_get(parse_name(call.name), k)
         IN (call.format_str = bracket_pattern(k, n) /\ value # <<>>)
              => ret = Returned(<< SubSeq(value, 1,
                                     IF n < Len(value) THEN n ELSE Len(value)) >>)

\* the strings value0, value1, ..., valuen
Numbered(value, n) == [i \in 1..(n + 1) |-> value \o py_str(i - 1)]

\* C7: a pattern that is a keyword, an optional [digits] and the digits of
\* n yields nothing when the keyword's field is empty, and otherwise the
\* n+1 strings made of the field's value (lower-cased when case sensitivity
\* is off) followed by 0, 1, ..., n in ascending order; the bracket changes
\* nothing.
C7_NumericSuffix ==
  done = "apply_format"
    => \A k \in Range(Keywords) : \A n \in 0..MaxN :
         LET value == name_get(parse_name(call.name), k)
             base == IF call.case_sensitive THEN value
                     ELSE [i \in DOMAIN value |-> ch_lower(value[i])]
             expected == IF value = <<>> THEN <<>> ELSE Numbered(base, n)
         IN ( \/ call.format_str = k \o py_str(n)
              \/ \E m \in BracketSamples :
                   call.format_str = bracket_pattern(k, m) \o py_str(n) )
              => ret = Returned(expected)

\* first[2]5 on "Ada Lovelace" without case sensitivity gave ada0 .. ada5
C7_Witness ==
  /\ done = "apply_format"
  /\ ~call.case_sensitive
  /\ call.name = name_Ada_Lovelace
  /\ call.format_str = bracket_pattern(kw_first, 2) \o <<"5">>
  /\ ret = Returned(<< <<"a","d","a","0">>, <<"a","d","a","1">>,
                       <<"a","d","a","2">>, <<"a","d","a","3">>,
                       <<"a","d","a","4">>, <<"a","d","a","5">> >>)

(***************************************************************************)
(* Properties of the pipeline, checked under Spec.                         *)
(***************************************************************************)
\* what the generation task gives for an item of the table
TaskOf(id) == unit_result(generator, id)

\* the usernames of the given items, item after item
RECURSIVE Blocks(_)
Blocks(ids) ==
  IF ids = <<>> THEN <<>>
  ELSE IF Len(ids) = 1 THEN TaskOf(ids[1]).value
  ELSE Blocks(SubSeq(ids, 1, Len(ids) \div 2))
         \o Blocks(SubSeq(ids, Len(ids) \div 2 + 1, Len(ids)))

Occurrences(seq, x) == Cardinality({i \in DOMAIN seq : seq[i] = x})

\* the number of usernames the items of the table up to n give, each counted
\* as often as it occurs in ids
RECURSIVE SumUpTo(_, _)
SumUpTo(ids, n) ==
  IF n = 0 THEN 0
  ELSE SumUpTo(ids, n - 1) + Occurrences(ids, n) * Len(TaskOf(n).value)
SumOfLengths(ids) == SumUpTo(ids, Len(Items))
ErrorsNaming(id) == Cardinality({i \in DOMAIN errors : errors[i].item = id})

\* the lines that reached the destination
Written == IF output_file THEN str_join(writes) ELSE printed
\* run_processing wrote the rest of its buffer
Flushed == pc = "returned" \/ (pc = "exit" /\ log.has_total)
\* the lines that reached the destination or wait in the buffer
Emitted ==
  IF output_file
  THEN str_join(writes) \o (IF Flushed THEN <<>> ELSE output_buffer)
  ELSE printed

\* C1: the units submitted and not yet collected never number more than
\* workers * 200, and an item is pulled from the source or submitted only
\* when no unit is uncollected.
C1_Backpressure ==
  /\ [](InFlight <= workers * 200)
  /\ [][(pulled' # pulled \/ InFlight' > InFlight) => InFlight = 0]_vars

\* a full chunk is in flight while the source holds more items
C1_Witness ==
  /\ pc = "collect"
  /\ InFlight = workers * 200
  /\ pulled < Len(source)

\* C2: a failing unit does not end the run: handling it adds one error
\* event naming its item, leaves the counter alone and the loop goes on;
\* when the run returns, each failing item has one error event per
\* occurrence in the source, and the counter and the output hold the full
\* contribution of every other item, whatever the order of completion.
C2_FailureIsolated ==
  /\ [][errors' # errors =>
          /\ errors' = Append(errors, [item |-> collected'[Len(collected')],
                                       message |-> "AttributeError"])
          /\ TaskOf(collected'[Len(collected')]).exc # ""
          /\ total_generated' = total_generated
          /\ Written' = Written
          /\ pc' \in {"collect", "load"}]_vars
  /\ [](pc = "returned" =>
          /\ \A id \in DOMAIN Items :
               /\ Occurrences(collected, id) = Occurrences(source, id)
               /\ ErrorsNaming(id) =
                    IF TaskOf(id).exc # "" THEN Occurrences(source, id) ELSE 0
          /\ total_generated = SumOfLengths(source)
          /\ Len(Written) = SumOfLengths(source))

\* a run of three items returned with one error event, the failing item
\* handled first although submitted last
C2_Witness ==
  /\ pc = "returned"
  /\ source = <<id_name, id_pair, id_bad_pair>>
  /\ collected[1] = id_bad_pair
  /\ errors = <<[item |-> id_bad_pair, message |-> "AttributeError"]>>
  /\ total_generated = Len(TaskOf(id_name).value) + Len(TaskOf(id_pair).value)
  /\ total_generated > 0

\* C3: when run_processing returns with a file destination, the lines
\* written are the usernames of the successfully completed items, each
\* item's usernames once, and the total returned (and logged by main) is
\* the number of lines written.
C3_AllWrittenOnce ==
  /\ (pc = "returned" /\ output_file) =>
       /\ str_join(writes) = Blocks(collected)
       /\ \A id \in DOMAIN Items :
            Occurrences(collected, id) = Occurrences(source, id)
       /\ total_generated = Len(str_join(writes))
  /\ (pc = "exit" /\ log.has_total /\ output_file) =>
       log.total = Len(str_join(writes))

\* a file run returned after a threshold write and a final write
C3_Witness ==
  /\ pc = "returned"
  /\ output_file
  /\ Len(errors) = 1
  /\ Len(writes) = 2
  /\ Len(writes[1]) = 1002
  /\ Len(writes[2]) = 501
  /\ total_generated = 1503

\* C8: handling a unit appends that item's usernames to the output as one
\* block, in the order the generation task gives them (format-list order,
\* ascending counter, duplicates kept), and no other step changes the
\* output; the blocks follow one another in the order of completion.
C8_ItemBlocks ==
  [][IF collected' # collected
     THEN Emitted' = Emitted \o TaskOf(collected'[Len(collected')]).value
     ELSE Emitted' = Emitted]_vars

\* two items with different usernames were written in the reverse of the
\* order of submission
C8_Witness ==
  /\ pc = "returned"
  /\ workers = 2
  /\ source = <<id_name, id_pair>>
  /\ collected = <<id_pair, id_name>>
  /\ generator.formats = DEFAULT_FORMATS
  /\ Written = TaskOf(id_pair).value \o TaskOf(id_name).value
  /\ Written # TaskOf(id_name).value \o TaskOf(id_pair).value

\* C9: after an interrupt no further chunk is dispatched, and the run ends
\* with a report of the number of usernames generated up to that point.
C9_InterruptReportsCount ==
  /\ interrupt_at >= 0 => dispatched = interrupt_at
  /\ (pc = "exit" /\ interrupt_at >= 0) =>
       (log.has_total /\ log.total = total_generated)

\* C10: with a file destination the buffer holds fewer than 1000 lines
\* after every handled unit; a unit whose usernames bring it to 1000 or
\* more has the whole buffer written in one write and the buffer emptied;
\* below 1000 nothing is written before the final write.
C10_BufferThreshold ==
  /\ [](output_file => Len(output_buffer) < 1000)
  /\ [][(output_file /\ collected' # collected) =>
          LET unit == TaskOf(collected'[Len(collected')])
          IN IF unit.exc = "" /\ Len(output_buffer) + Len(unit.value) >= 1000
             THEN /\ writes' = Append(writes, output_buffer \o unit.value)
                  /\ output_buffer' = <<>>
             ELSE writes' = writes]_vars
  /\ [][writes' # writes => (collected' # collected \/ pc = "flush")]_vars

\* a unit of 1000 usernames was written at once, before the final write
C10_Witness ==
  /\ output_file
  /\ pc = "collect"
  /\ output_buffer = <<>>
  /\ Len(writes) = 1
  /\ Len(writes[1]) = 1000

====
